---------------------------- MODULE Spec2Model ----------------------------
(***************************************************************************)
(* TLScope: UDP multicast peer discovery (NetManager), its constructor's   *)
(* port negotiation, the interactive shell that reads the presence table,  *)
(* and the salted credential hash (TLSS_U::hash / TLSS_U::checkHash).      *)
(*                                                                         *)
(* The specifications share the variables:                                 *)
(*   SpecHash  genSalt, hash / checkHash applied to bounded secrets, and   *)
(*             the token built from a hash                                 *)
(*   SpecLogin TLScope::loginUser over a bounded registry                  *)
(*   SpecRun   TLScope::run: the start menu, login or registration, and    *)
(*             the construction of the NetManager                          *)
(*   SpecWire  one datagram as it is built and as udpHandler reads it      *)
(*   SpecCtor  NetManager::NetManager: TLS setup, socket setup, bind loop  *)
(*   SpecWrap  the bind loop when the port counter comes up to 2^16        *)
(*   Spec      one constructed node: worker thread, its two per-cycle      *)
(*             tasks, the shell thread, the clock and datagrams arriving   *)
(*             from other hosts (FairSpec adds the scheduler's fairness)   *)
(*   SpecNet   two constructed nodes exchanging datagrams                  *)
(***************************************************************************)
EXTENDS Integers, Sequences, FiniteSets, TLC

(***************************************************************************)
(* Bounds of the model                                                     *)
(***************************************************************************)
MaxSecretLen == 2     \* longest secret handed to hash / checkHash
MaxSaltLen == 3       \* longest salt asked of genSalt in SpecHash
BindCap == 105        \* bind attempts explored in SpecCtor and SpecWrap
RetryBudget == 100    \* retry budget suggested by the design (spec 4.3)
WrapWindow == 20      \* SpecWrap starts this many ports below 2^16
MaxPortOffset == 0    \* a constructed node is bound to PORT .. PORT+MaxPortOffset
NetPortOffset == 1    \* in SpecNet a node is bound to PORT .. PORT+NetPortOffset
MaxQueue == 1         \* datagrams queued in one socket's receive buffer
StartTime == 3        \* clock value (seconds since the epoch) at Init
MaxTime == 6          \* last clock value explored
DiscoveryCycles == 4  \* ceil(presenceTimeout / receive timeout) = ceil(2 / 0.5)

(***************************************************************************)
(* Program constants                                                       *)
(***************************************************************************)
PORT == 3000
PresenceTimeout == 2
SaltBytes == 16
HmacBlockSize == 64
DigestSize == 32
MaxSleepMs == 3000
PortModulus == 65536
Epoch == 0

Nodes == {"A", "B"}

\* ---------------------------------------------------------------------
\* Strings are sequences of characters; a character is a TLA+ string of
\* length one, a raw byte is a number 0..255.
\* ---------------------------------------------------------------------
PONG_PREFIX == <<"p", "o", "n", "g", ":">>
\* the two-byte UTF-8 markers of udp.cpp, one element per byte
PROBE_MARK == <<"0xCA", "0x80">>
REPLY_MARK == <<"0xCA", "0x81">>

HexDigits == <<"0", "1", "2", "3", "4", "5", "6", "7",
               "8", "9", "A", "B", "C", "D", "E", "F">>

\* variant of HexEncode: one digit per byte, the high nibble is dropped
HexEncode_LowNibble(bytes) ==
    [i \in 1..Len(bytes) |-> HexDigits[(bytes[i] % 16) + 1]]

\* CryptoPP::HexEncoder: two upper-case hex digits per byte, high nibble first
HexEncode(bytes) ==
    [i \in 1..(2 * Len(bytes)) |->
        IF i % 2 = 1 THEN HexDigits[(bytes[(i + 1) \div 2] \div 16) + 1]
                     ELSE HexDigits[(bytes[i \div 2] % 16) + 1]]

\* _rand::genSalt: `rnd` is the block the random pool generated
genSalt(rnd) == HexEncode(rnd)

\* The key block HMAC works with: a key longer than the block size is
\* replaced by its digest, and the result is zero-padded to the block size.
HmacKeyBlock(data) ==
    IF Len(data) > HmacBlockSize
    THEN <<"sha256", data>>
    ELSE [i \in 1..HmacBlockSize |-> IF i <= Len(data) THEN data[i] ELSE 0]

\* PKCS5_PBKDF2_HMAC<SHA256>::DeriveKey into byte key[SHA256::DIGESTSIZE]:
\* the derived key is a function of the HMAC key block and the salt; SHA-256
\* itself is taken as collision free, so each of the DigestSize key bytes is
\* identified by the two inputs that determine it and by its position.
DeriveKey(data, salt) ==
    [i \in 1..DigestSize |-> [key |-> HmacKeyBlock(data), salt |-> salt, at |-> i]]

\* HexEncoder over the derived key: two hex digits per key byte, each
\* identified by the byte it encodes and by the nibble
HexKey(k) ==
    [j \in 1..(2 * Len(k)) |-> [byte |-> k[(j + 1) \div 2], high |-> j % 2 = 1]]

\* variant of hash: the key is derived with the raw salt bytes while the
\* hex-encoded salt is returned
hash_RawSalt(data, rnd) == <<genSalt(rnd), HexKey(DeriveKey(data, rnd))>>

\* TLSS_U::hash
hash(data, rnd) ==
    LET salt == genSalt(rnd)
    IN  <<salt, HexKey(DeriveKey(data, salt))>>

\* TLSS_U::checkHash
checkHash(data, salt, hashed) == HexKey(DeriveKey(data, salt)) = hashed

(***************************************************************************)
(* State                                                                   *)
(***************************************************************************)
VARIABLES
    hPc, hData, hSalt, hHashed, hCand, hOk,   \* SpecHash: hashTest's locals
    sN, sSalt,        \* SpecHash: SaltTest's argument and result
    hToken,           \* SpecHash: the _token built from a hash
    lPc,              \* SpecLogin: position in TLScope::loginUser
    lEmail, lAttempt, \* loginUser's locals
    lSleep,           \* milliseconds slept before the lookup
    lReg,             \* registered_users: email -> hashedPassword
    lMsg,             \* what the last attempt wrote to std::cerr
    lWork,            \* salts generated and keys derived by the last attempt
    lObs,             \* what the last failure of each cause looked like
    lUser,            \* TLScope::user
    wPc, wFrom, wTok, wMsg, wIsId, wExtract,  \* SpecWire: one datagram
    runPc,            \* SpecRun: position in TLScope::run and TLScope::start
    regResult,        \* how the call of TLScope::registerUser ended
    sessions,         \* NetManager objects TLScope::run has constructed
    now,              \* std::chrono::system_clock::now(), in seconds
    mainPc,           \* position of the thread running TLScope::run
    joinable,         \* _udpClient.joinable()
    _ctxT,            \* NetManager::_ctxT
    _uPort,           \* NetManager::_uPort
    boundPort,        \* port the kernel bound _uSocket to (0: not bound)
    bindTried,        \* ports handed to bind() since Init, in order
    sockOpen,         \* _uSocket is open
    servaddr,         \* NetManager::servaddr
    cliaddr,          \* NetManager::cliaddr
    receivedMessage,  \* NetManager::receivedMessage
    rxFrom,           \* who sent the datagram receivedMessage was read from
    rx,               \* how recvfrom returned in the cycle under way
    _running,         \* NetManager::_running
    _users,           \* NetManager::_users
    loopPc,           \* position of the worker thread in udpHandler
    spPc,             \* position of the sendPing task
    rpPc,             \* position of the receivePong task
    inbox,            \* receive buffer of _uSocket
    shellIt,          \* the iterator of the shell's 'u' command
    cycles            \* cycles a worker began while its peer was up

testVars == <<hPc, hData, hSalt, hHashed, hCand, hOk, sN, sSalt, hToken>>
loginVars == <<lPc, lEmail, lAttempt, lSleep, lReg, lMsg, lWork, lObs, lUser>>
wireVars == <<wPc, wFrom, wTok, wMsg, wIsId, wExtract>>
runVars == <<runPc, regResult, sessions>>
hashVars == <<testVars, loginVars, wireVars, runVars>>
ctorVars == <<_uPort, boundPort, bindTried, _ctxT>>
mainVars == <<mainPc, joinable, shellIt>>
sockVars == <<sockOpen, inbox>>
loopVars == <<servaddr, cliaddr, receivedMessage, rxFrom, rx, _running, _users,
              loopPc, spPc, rpPc, cycles>>
nodeVars == <<now, runVars, ctorVars, mainVars, sockVars, loopVars>>
restVars == <<testVars, wireVars, now, ctorVars, mainVars, sockVars, loopVars>>
vars == <<hashVars, now, ctorVars, mainVars, sockVars, loopVars>>

(***************************************************************************)
(* Addresses and ports                                                     *)
(***************************************************************************)
MCAST == "224.0.0.1"
INADDR_ANY == "0.0.0.0"
LOOPBACK == "127.0.0.1"
FOREIGN == "10.0.0.9"
HostAddr == [n \in Nodes |-> IF n = "A" THEN "10.0.0.1" ELSE "10.0.0.2"]

\* TLSS_U::getLocalIP: the first non-loopback IPv4 interface address
_ip(n) == HostAddr[n]

\* 16-bit port field of sockaddr_in
htons(x) == x % PortModulus
ntohs(x) == x % PortModulus

ZeroAddr == [addr |-> INADDR_ANY, port |-> 0]

(***************************************************************************)
(* SpecHash: test.cpp hashTest, over bounded secrets                       *)
(***************************************************************************)
SecretBytes == {0, 97, 98}
Secrets == UNION {[1..k -> SecretBytes] : k \in 0..MaxSecretLen}

\* blocks the random pool may generate for genSalt(16)
RandomBlocks == {[i \in 1..SaltBytes |-> b] : b \in {0, 171, 255}}
                    \cup {[i \in 1..SaltBytes |-> 16 * (i - 1) + 9]}

\* no login under way: TLScope::loginUser has not been called
ZeroWork == [salts |-> 0, derives |-> 0]
NoObs == [msg |-> <<>>, next |-> "none", work |-> ZeroWork]
LoginIdle ==
    /\ lPc = "off" /\ lEmail = "" /\ lAttempt = <<>> /\ lSleep = 0
    /\ lReg = <<>> /\ lMsg = <<>> /\ lWork = ZeroWork
    /\ lObs = [unknown |-> NoObs, wrong |-> NoObs] /\ lUser = ""

\* no datagram under study
WireIdle ==
    /\ wPc = "off" /\ wFrom = "none" /\ wTok = <<>> /\ wMsg = <<>>
    /\ wIsId = FALSE /\ wExtract = <<>>

TestIdle ==
    /\ hPc = "off" /\ hData = <<>> /\ hSalt = <<>>
    /\ hHashed = <<>> /\ hCand = <<>> /\ hOk = FALSE
    /\ sN = 0 /\ sSalt = <<>> /\ hToken = <<>>

\* TLScope::run has not been called
RunIdle == runPc = "off" /\ regResult = "none" /\ sessions = 0

HashIdle == TestIdle /\ LoginIdle /\ WireIdle /\ RunIdle

\* blocks the random pool may generate for genSalt(n)
SaltTestBlocks == UNION {[1..n -> {9, 171}] : n \in 0..MaxSaltLen}

\* std::string salt = _rand::genSalt(n)
SaltCall ==
    /\ hPc = "salt"
    /\ \E rnd \in SaltTestBlocks :
          /\ sN' = Len(rnd)
          /\ sSalt' = genSalt(rnd)
    /\ hPc' = "salted"
    /\ UNCHANGED <<hData, hSalt, hHashed, hCand, hOk, hToken>>

\* the end of SaltTest: its local goes out of scope
SaltDone ==
    /\ hPc = "salted"
    /\ sN' = 0 /\ sSalt' = <<>>
    /\ hPc' = "start"
    /\ UNCHANGED <<hData, hSalt, hHashed, hCand, hOk, hToken>>

\* std::pair<...> hashed = TLSS_U::hash(data)
HashCall ==
    /\ hPc = "start"
    /\ \E rnd \in RandomBlocks :
          /\ hSalt' = hash(hData, rnd)[1]
          /\ hHashed' = hash(hData, rnd)[2]
    /\ hPc' = "hashed"
    /\ UNCHANGED <<hData, hCand, hOk, sN, sSalt, hToken>>

\* TLSS_U::checkHash(candidate, hashed.first, hashed.second)
CheckHashCall ==
    /\ hPc = "hashed"
    /\ hOk' = checkHash(hCand, hSalt, hHashed)
    /\ hPc' = "checked"
    /\ UNCHANGED <<hData, hSalt, hHashed, hCand, sN, sSalt, hToken>>

\* t.first + ':' + t.second
TokenString(salt, hexkey) == salt \o <<":">> \o hexkey

\* NetManager::NetManager: auto t = TLSS_U::hash(uuid);
\* _token = t.first + ':' + t.second
MakeToken ==
    /\ hPc = "hashed"
    /\ hToken' = TokenString(hSalt, hHashed)
    /\ hPc' = "token"
    /\ UNCHANGED <<hData, hSalt, hHashed, hCand, hOk, sN, sSalt>>

(***************************************************************************)
(* SpecLogin: TLScope::loginUser over a bounded registry                   *)
(***************************************************************************)
LoginEmails == {"alice@x", "bob@x", "q"}
QuitWord == <<113>>                                   \* "q"
DummyPass == <<100, 117, 109, 109, 121, 112, 97, 115, 115, 33>>   \* "dummypass!"
LoginAttempts == {<<97>>, <<98>>, <<97, 0>>, QuitWord}
SleepChoices == {0, MaxSleepMs}
InvalidMsg == "Invalid email password combination!"

\* registerUser: hashedPassword = hash.first + "\x1F" + hash.second
HashedPassword(password, rnd) ==
    hash(password, rnd)[1] \o <<"0x1F">> \o hash(password, rnd)[2]

\* registries buildRegisteredUsers may have loaded
Registries ==
    {<<>>} \cup {[e \in {"alice@x"} |-> HashedPassword(pw, rnd)] :
                    pw \in {<<97>>, <<98>>}, rnd \in RandomBlocks}

\* std::string::find(ch): the first position of ch, Len(str) for npos
RECURSIVE FindFrom(_, _, _)
FindFrom(str, ch, i) ==
    IF i > Len(str) THEN Len(str)
    ELSE IF str[i] = ch THEN i - 1
    ELSE FindFrom(str, ch, i + 1)
Find(str, ch) == FindFrom(str, ch, 1)

\* work of one call of TLSS_U::hash and of one call of TLSS_U::checkHash
HashWork == [salts |-> 1, derives |-> 1]
CheckHashWork == [salts |-> 0, derives |-> 1]
AddWork(a, b) == [salts |-> a.salts + b.salts, derives |-> a.derives + b.derives]

\* both reads of loginUser; "q" for either returns false
LoginPrompt ==
    /\ lPc = "prompt"
    /\ \E e \in LoginEmails : \E a \in LoginAttempts :
          IF e = "q" \/ a = QuitWord
          THEN /\ lPc' = "quit"
               /\ lEmail' = e
               /\ lAttempt' = IF e = "q" THEN lAttempt ELSE a
               /\ UNCHANGED <<lMsg, lWork>>
          ELSE /\ lPc' = "sleep"
               /\ lEmail' = e /\ lAttempt' = a
               /\ lMsg' = <<>> /\ lWork' = ZeroWork
    /\ UNCHANGED <<lSleep, lReg, lObs, lUser>>

\* sleep_for(milliseconds(_rand::value(0, 3000))), then find_if over
\* registered_users
LoginLookup ==
    /\ lPc = "sleep"
    /\ lSleep' \in SleepChoices
    /\ lPc' = IF lEmail \in DOMAIN lReg THEN "known" ELSE "unknown"
    /\ UNCHANGED <<lEmail, lAttempt, lReg, lMsg, lWork, lObs, lUser>>

\* it == registered_users.end(): the dummy hash, the check against it, the
\* message and continue
LoginUnknown ==
    /\ lPc = "unknown"
    /\ \E rnd \in RandomBlocks :
          LET dummyHash == hash(DummyPass, rnd)
              ok == checkHash(lAttempt, dummyHash[1], dummyHash[2])
              work == AddWork(HashWork, CheckHashWork)
          IN  /\ ok \in BOOLEAN
              /\ lWork' = work
              /\ lMsg' = <<InvalidMsg>>
              /\ lObs' = [lObs EXCEPT !.unknown =
                            [msg |-> <<InvalidMsg>>, next |-> "prompt", work |-> work]]
    /\ lPc' = "prompt"
    /\ UNCHANGED <<lEmail, lAttempt, lSleep, lReg, lUser>>

\* the registered case: split hashedPassword at "\x1F" and check the attempt
LoginKnown ==
    /\ lPc = "known"
    /\ LET stored == lReg[lEmail]
           pos == Find(stored, "0x1F")
           salt == IF pos # Len(stored) THEN SubSeq(stored, 1, pos) ELSE <<>>
           hashed == IF pos # Len(stored) THEN SubSeq(stored, pos + 2, Len(stored))
                     ELSE <<>>
       IN  /\ lWork' = CheckHashWork
           /\ IF ~checkHash(lAttempt, salt, hashed)
              THEN /\ lMsg' = <<InvalidMsg>>
                   /\ lObs' = [lObs EXCEPT !.wrong =
                                 [msg |-> <<InvalidMsg>>, next |-> "prompt",
                                  work |-> CheckHashWork]]
                   /\ lPc' = "prompt"
                   /\ UNCHANGED lUser
              ELSE /\ lUser' = lEmail
                   /\ lPc' = "in"
                   /\ UNCHANGED <<lMsg, lObs>>
    /\ UNCHANGED <<lEmail, lAttempt, lSleep, lReg>>

(***************************************************************************)
(* SpecCtor: the bind loop that ends NetManager::NetManager                *)
(***************************************************************************)
EphemeralPorts == {32768}

\* port the kernel binds for a requested port: 0 asks for an ephemeral one
KernelPorts(p) == IF p = 0 THEN EphemeralPorts ELSE {p}

\* variant of NextPort: the counter skips a port
NextPort_Skip(p) == p + 2

\* _uPort++
NextPort(p) == p + 1

\* variant of AfterTlsFailure: the constructor carries on with the UDP setup
AfterTlsFailure_Continue == "socket"

\* ERR_print_errors_fp(stderr); exit(1)
AfterTlsFailure == "tls_exit"

\* _token = hash(uuid); _ctxT = SSL_CTX_new(TLS_client_method())
TlsContext(n) ==
    /\ mainPc[n] = "ctor"
    /\ \E ok \in BOOLEAN :
          /\ _ctxT' = [_ctxT EXCEPT ![n] = IF ok THEN "new" ELSE "nullptr"]
          /\ mainPc' = [mainPc EXCEPT ![n] = IF ok THEN "tls_load" ELSE AfterTlsFailure]
    /\ UNCHANGED <<hashVars, now, _uPort, boundPort, bindTried, joinable, shellIt,
                   sockVars, loopVars>>

\* SSL_CTX_load_verify_locations(_ctxT, "ca-cert.pem", nullptr)
TlsLoadVerify(n) ==
    /\ mainPc[n] = "tls_load"
    /\ \E ok \in BOOLEAN :
          /\ _ctxT' = [_ctxT EXCEPT ![n] = IF ok THEN "loaded" ELSE @]
          /\ mainPc' = [mainPc EXCEPT ![n] = IF ok THEN "socket" ELSE AfterTlsFailure]
    /\ UNCHANGED <<hashVars, now, _uPort, boundPort, bindTried, joinable, shellIt,
                   sockVars, loopVars>>

\* _uSocket = socket(AF_INET, SOCK_DGRAM, 0), or exit(EXIT_FAILURE)
SocketCreate(n) ==
    /\ mainPc[n] = "socket"
    /\ \E ok \in BOOLEAN :
          /\ sockOpen' = [sockOpen EXCEPT ![n] = ok]
          /\ mainPc' = [mainPc EXCEPT ![n] = IF ok THEN "setup" ELSE "sock_exit"]
    /\ UNCHANGED <<hashVars, now, ctorVars, joinable, shellIt, inbox, loopVars>>

\* setsockopt(IP_ADD_MEMBERSHIP), memset of servaddr and cliaddr,
\* setsockopt(SO_RCVTIMEO); either setsockopt may fail: exit(EXIT_FAILURE)
SocketSetup(n) ==
    /\ mainPc[n] = "setup"
    /\ \E ok \in BOOLEAN :
          mainPc' = [mainPc EXCEPT ![n] = IF ok THEN "bind" ELSE "sock_exit"]
    /\ servaddr' = [servaddr EXCEPT ![n] = ZeroAddr]
    /\ cliaddr' = [cliaddr EXCEPT ![n] = ZeroAddr]
    /\ UNCHANGED <<hashVars, now, ctorVars, joinable, shellIt, sockVars,
                   receivedMessage, rxFrom, rx, _running, _users, loopPc, spPc,
                   rpPc, cycles>>

\* one iteration of while(true) in which bind() fails
BindFail(n) ==
    /\ mainPc[n] = "bind"
    /\ Len(bindTried[n]) < BindCap
    /\ bindTried' = [bindTried EXCEPT ![n] = Append(@, ntohs(htons(_uPort[n])))]
    /\ servaddr' = [servaddr EXCEPT ![n].port = htons(_uPort[n])]
    /\ _uPort' = [_uPort EXCEPT ![n] = NextPort(@)]
    /\ UNCHANGED <<hashVars, now, boundPort, _ctxT, mainVars, sockVars, cliaddr,
                   receivedMessage, rxFrom, rx, _running, _users, loopPc, spPc,
                   rpPc, cycles>>

\* the iteration in which bind() succeeds, and the break
BindOk(n) ==
    /\ mainPc[n] = "bind"
    /\ bindTried' = [bindTried EXCEPT ![n] = Append(@, ntohs(htons(_uPort[n])))]
    /\ servaddr' = [servaddr EXCEPT ![n].port = htons(_uPort[n])]
    /\ \E p \in KernelPorts(ntohs(htons(_uPort[n]))) :
          boundPort' = [boundPort EXCEPT ![n] = p]
    /\ mainPc' = [mainPc EXCEPT ![n] = "bound"]
    /\ UNCHANGED <<hashVars, now, _uPort, _ctxT, joinable, shellIt, sockVars, cliaddr,
                   receivedMessage, rxFrom, rx, _running, _users, loopPc, spPc,
                   rpPc, cycles>>

\* _ip = getLocalIP(); _udpClient = std::thread(&NetManager::udpHandler, this)
StartWorker(n) ==
    /\ mainPc[n] = "bound"
    /\ loopPc' = [loopPc EXCEPT ![n] = "top"]
    /\ joinable' = [joinable EXCEPT ![n] = TRUE]
    /\ mainPc' = [mainPc EXCEPT ![n] = "shell"]
    /\ UNCHANGED <<hashVars, now, ctorVars, shellIt, sockVars, servaddr, cliaddr,
                   receivedMessage, rxFrom, rx, _running, _users, spPc, rpPc, cycles>>

\* Nodes in `on` are NetManager objects; the other nodes do not exist.
\* stage = "ctor": the constructor has just been entered.  stage = "bind":
\* it is in the bind loop and off[n] attempts, for PORT .. PORT + off[n] - 1,
\* have failed; bindTried records the attempts from here on.  stage = "shell": it has returned, the socket is bound to
\* PORT + off[n] after off[n] failed attempts and the worker is started.
NodesInit(on, stage, off, queued) ==
    /\ mainPc = [n \in Nodes |-> IF n \in on THEN stage ELSE "off"]
    /\ joinable = [n \in Nodes |-> n \in on /\ stage = "shell"]
    /\ shellIt = [n \in Nodes |-> <<>>]
    /\ _ctxT = [n \in Nodes |->
                  IF n \in on /\ stage # "ctor" THEN "loaded" ELSE "nullptr"]
    /\ _uPort = [n \in Nodes |->
                   IF n \in on /\ stage # "ctor" THEN PORT + off[n] ELSE PORT]
    /\ boundPort = [n \in Nodes |->
                      IF n \in on /\ stage = "shell" THEN PORT + off[n] ELSE 0]
    /\ bindTried = [n \in Nodes |->
                      IF n \in on /\ stage = "shell"
                      THEN [i \in 1..(off[n] + 1) |-> PORT + i - 1]
                      ELSE <<>>]
    /\ sockOpen = [n \in Nodes |-> n \in on /\ stage # "ctor"]
    /\ inbox = [n \in Nodes |-> IF n \in on /\ stage = "shell" THEN queued[n] ELSE <<>>]
    /\ servaddr = [n \in Nodes |->
                     IF n \in on /\ stage = "shell"
                     THEN [addr |-> INADDR_ANY, port |-> htons(PORT + off[n])]
                     ELSE IF n \in on /\ stage = "bind" /\ off[n] > 0
                     THEN [addr |-> INADDR_ANY, port |-> htons(PORT + off[n] - 1)]
                     ELSE ZeroAddr]
    /\ cliaddr = [n \in Nodes |-> ZeroAddr]
    /\ receivedMessage = [n \in Nodes |-> <<>>]
    /\ rxFrom = [n \in Nodes |-> "none"]
    /\ rx = [n \in Nodes |-> "none"]
    /\ _running = [n \in Nodes |-> TRUE]
    /\ _users = [n \in Nodes |-> <<>>]
    /\ loopPc = [n \in Nodes |-> IF n \in on /\ stage = "shell" THEN "top" ELSE "none"]
    /\ spPc = [n \in Nodes |-> "idle"]
    /\ rpPc = [n \in Nodes |-> "idle"]
    /\ cycles = [n \in Nodes |-> 0]

NoOffset == [n \in Nodes |-> 0]
NoneQueued == [n \in Nodes |-> <<>>]

(***************************************************************************)
(* Strings, tokens and the presence table                                  *)
(***************************************************************************)
\* std::string::find(pat) != npos
Contains(str, pat) ==
    \E i \in 1..(Len(str) - Len(pat) + 1) :
        SubSeq(str, i, i + Len(pat) - 1) = pat

\* std::string::substr(pos)
substr(str, pos) == SubSeq(str, pos + 1, Len(str))

\* receivedMessage.assign(buffer): the C string in the buffer ends at its
\* first NUL byte
CString(data) ==
    IF \E i \in 1..Len(data) : data[i] = "0x00"
    THEN SubSeq(data, 1, (CHOOSE i \in 1..Len(data) :
                            /\ data[i] = "0x00"
                            /\ \A j \in 1..(i - 1) : data[j] # "0x00") - 1)
    ELSE data

\* the token each constructor derived; a foreign token belongs to a peer
\* on another host
_token(n) == IF n = "A" THEN TokenString(HexEncode(<<161>>), HexEncode(<<11>>))
                        ELSE TokenString(HexEncode(<<178>>), HexEncode(<<12>>))
ForeignTokens == {TokenString(HexEncode(<<195>>), HexEncode(<<13>>))}

\* response = PONG_PREFIX + _token, the datagram udpHandler sends
LoopIdentify(token) == PONG_PREFIX \o token

\* response = marker + _token, the datagram receivePong sends
RecvIdentify(token) == REPLY_MARK \o token

\* byte order of the characters that occur, for std::map's key order
CharOrder == <<"0x00", "0", "1", "2", "3", "4", "5", "6", "7", "8", "9", ":",
               "A", "B", "C", "D", "E", "F", "g", "n", "o", "p",
               "0x80", "0x81", "0xCA">>
Rank(c) == CHOOSE i \in 1..Len(CharOrder) : CharOrder[i] = c

\* std::less<std::string>
StrLess(s, t) ==
    \E i \in 1..(Len(s) + 1) :
        /\ \A j \in 1..(i - 1) : j <= Len(t) /\ s[j] = t[j]
        /\ i <= Len(t)
        /\ (i = Len(s) + 1 \/ Rank(s[i]) < Rank(t[i]))

\* _users.begin() and ++it; <<>> stands for _users.end()
MapBegin(m) ==
    IF DOMAIN m = {} THEN <<>>
    ELSE CHOOSE k \in DOMAIN m : \A o \in DOMAIN m : o = k \/ StrLess(k, o)
MapNext(m, k) ==
    LET after == {o \in DOMAIN m : StrLess(k, o)}
    IN  IF after = {} THEN <<>>
        ELSE CHOOSE o \in after : \A q \in after : q = o \/ StrLess(o, q)

\* a map as a function from its keys
MapPut(m, k, v) == [x \in DOMAIN m \cup {k} |-> IF x = k THEN v ELSE m[x]]
MapRestrict(m, keep) == [x \in keep |-> m[x]]

\* NetManager::createUser; `by` records whose datagram created the record
createUser(n, token, addr) ==
    [name |-> Cardinality(DOMAIN _users[n]) + 1,
     IPP |-> <<addr.addr, ntohs(addr.port)>>,
     lastHeartbeat |-> Epoch,
     by |-> rxFrom[n]]

\* variant of removeInactiveUsers: a record exactly PresenceTimeout old is
\* erased as well
removeInactiveUsers_Eager(m, t) ==
    MapRestrict(m, {k \in DOMAIN m : ~(m[k].lastHeartbeat <= t - PresenceTimeout)})

\* NetManager::removeInactiveUsers at clock value t
removeInactiveUsers(m, t) ==
    MapRestrict(m, {k \in DOMAIN m : ~(m[k].lastHeartbeat < t - PresenceTimeout)})

(***************************************************************************)
(* The network                                                             *)
(***************************************************************************)
\* source address the receiver sees for a datagram n sent to daddr
SrcAddr(n, daddr) ==
    IF daddr \in {INADDR_ANY, LOOPBACK} THEN LOOPBACK ELSE HostAddr[n]

\* sockets a datagram sent by n to daddr:dport is addressed to
Receivers(n, daddr, dport) ==
    {m \in Nodes :
        /\ sockOpen[m] /\ boundPort[m] # 0 /\ boundPort[m] = dport
        /\ \/ daddr = MCAST
           \/ daddr = HostAddr[m]
           \/ daddr \in {INADDR_ANY, LOOPBACK} /\ m = n}

Datagram(n, daddr, data) ==
    [src |-> SrcAddr(n, daddr), sport |-> boundPort[n], data |-> data, from |-> n]

\* sendto(_uSocket, data, ..., to): the datagram is queued at every socket
\* it is addressed to; a full receive buffer drops it
sendto(n, data, to) ==
    inbox' = [m \in Nodes |->
                IF m \in Receivers(n, to.addr, ntohs(to.port))
                   /\ Len(inbox[m]) < MaxQueue
                THEN Append(inbox[m], Datagram(n, to.addr, data))
                ELSE inbox[m]]

\* datagrams that hosts other than the nodes may send to a node
\* a peer on another host sends a probe or its identify from the port it
\* is bound to; the same peer may later be bound to the next port or to PORT
ForeignPorts == {PORT, PORT + MaxPortOffset + 1, PORT + MaxPortOffset + 2}
ForeignPayloads == {PROBE_MARK} \cup {LoopIdentify(t) : t \in ForeignTokens}
ForeignDatagrams ==
    {[src |-> FOREIGN, sport |-> p, data |-> x, from |-> "foreign"] :
        p \in {PORT + MaxPortOffset + 1}, x \in ForeignPayloads}
    \cup
    {[src |-> FOREIGN, sport |-> p, data |-> LoopIdentify(t), from |-> "foreign"] :
        p \in ForeignPorts, t \in ForeignTokens}

ForeignSend(n) ==
    /\ sockOpen[n] /\ boundPort[n] # 0
    /\ Len(inbox[n]) < MaxQueue
    /\ \E d \in ForeignDatagrams : inbox' = [inbox EXCEPT ![n] = Append(@, d)]
    /\ UNCHANGED <<hashVars, now, ctorVars, mainVars, sockOpen, loopVars>>

\* the system clock advances
Tick ==
    /\ now < MaxTime
    /\ now' = now + 1
    /\ UNCHANGED <<hashVars, ctorVars, mainVars, sockVars, loopVars>>

(***************************************************************************)
(* The worker thread: NetManager::udpHandler                               *)
(***************************************************************************)
PeerUp(n) == \E m \in Nodes \ {n} : loopPc[m] \notin {"none", "done"}

\* the worker is back at while (_running)
CycleDone(n) ==
    cycles' = [cycles EXCEPT ![n] =
                 IF PeerUp(n) /\ @ < DiscoveryCycles THEN @ + 1 ELSE @]

\* variant of LoopCond: the loop does not look at _running
LoopCond_Forever(n) == TRUE

\* the condition of while (_running)
LoopCond(n) == _running[n]

\* while (_running)
LoopTop(n) ==
    /\ loopPc[n] = "top"
    /\ loopPc' = [loopPc EXCEPT ![n] = IF LoopCond(n) THEN "sweep" ELSE "close"]
    /\ UNCHANGED <<hashVars, now, ctorVars, mainVars, sockVars, servaddr, cliaddr,
                   receivedMessage, rxFrom, rx, _running, _users, spPc, rpPc, cycles>>

\* removeInactiveUsers(); then sendPing() and receivePong() launch their tasks
Sweep(n) ==
    /\ loopPc[n] = "sweep"
    /\ _users' = [_users EXCEPT ![n] = removeInactiveUsers(@, now)]
    /\ spPc' = [spPc EXCEPT ![n] = "set"]
    /\ rpPc' = [rpPc EXCEPT ![n] = "set"]
    /\ loopPc' = [loopPc EXCEPT ![n] = "wait"]
    /\ UNCHANGED <<hashVars, now, ctorVars, mainVars, sockVars, servaddr, cliaddr,
                   receivedMessage, rxFrom, rx, _running, cycles>>

\* sendPing: servaddr = 224.0.0.1:_uPort, then setsockopt(IP_MULTICAST_TTL)
SendPingSet(n) ==
    /\ spPc[n] = "set"
    /\ servaddr' = [servaddr EXCEPT ![n] = [addr |-> MCAST, port |-> htons(_uPort[n])]]
    /\ \E ttlOk \in BOOLEAN :
          spPc' = [spPc EXCEPT ![n] = IF ttlOk THEN "send" ELSE "done"]
    /\ UNCHANGED <<hashVars, now, ctorVars, mainVars, sockVars, cliaddr,
                   receivedMessage, rxFrom, rx, _running, _users, loopPc, rpPc, cycles>>

\* sendPing: sendto(_uSocket, probe, ..., servaddr)
SendPingSend(n) ==
    /\ spPc[n] = "send"
    /\ \/ sendto(n, PROBE_MARK, servaddr[n])
       \/ UNCHANGED inbox              \* bytesSent == -1
    /\ spPc' = [spPc EXCEPT ![n] = "done"]
    /\ UNCHANGED <<hashVars, now, ctorVars, mainVars, sockOpen, servaddr, cliaddr,
                   receivedMessage, rxFrom, rx, _running, _users, loopPc, rpPc, cycles>>

\* receivePong: servaddr.sin_addr.s_addr = INADDR_ANY; the task then enters
\* recvfrom and stays in it (rpPc = "recv") until it returns
RecvPongSet(n) ==
    /\ rpPc[n] = "set"
    /\ servaddr' = [servaddr EXCEPT ![n].addr = INADDR_ANY]
    /\ rpPc' = [rpPc EXCEPT ![n] = "recv"]
    /\ UNCHANGED <<hashVars, now, ctorVars, mainVars, sockVars, cliaddr,
                   receivedMessage, rxFrom, rx, _running, _users, loopPc, spPc, cycles>>

\* receivePong: recvfrom returns a datagram; the source is compared to _ip
RecvData(n) ==
    /\ rpPc[n] = "recv"
    /\ inbox[n] # <<>>
    /\ LET d == Head(inbox[n]) IN
          /\ cliaddr' = [cliaddr EXCEPT ![n] = [addr |-> d.src, port |-> htons(d.sport)]]
          /\ receivedMessage' = [receivedMessage EXCEPT ![n] = CString(d.data)]
          /\ rxFrom' = [rxFrom EXCEPT ![n] = d.from]
          /\ rx' = [rx EXCEPT ![n] = "data"]
          /\ rpPc' = [rpPc EXCEPT ![n] = IF d.src = _ip(n) THEN "done" ELSE "reply"]
    /\ inbox' = [inbox EXCEPT ![n] = Tail(@)]
    /\ UNCHANGED <<hashVars, now, ctorVars, mainVars, sockOpen, servaddr,
                   _running, _users, loopPc, spPc, cycles>>

\* variant of RecvTimeout: without SO_RCVTIMEO recvfrom stays blocked while
\* nothing is queued
RecvTimeout_Blocks(n) ==
    /\ rpPc[n] = "recv"
    /\ inbox[n] = <<>>
    /\ UNCHANGED vars

\* variant of RecvTimeout: the timeout is treated like any other errno
RecvTimeout_Fatal(n) ==
    /\ rpPc[n] = "recv"
    /\ inbox[n] = <<>>
    /\ rx' = [rx EXCEPT ![n] = "timeout"]
    /\ _running' = [_running EXCEPT ![n] = FALSE]
    /\ rpPc' = [rpPc EXCEPT ![n] = "done"]
    /\ UNCHANGED <<hashVars, now, ctorVars, mainVars, sockVars, servaddr, cliaddr,
                   receivedMessage, rxFrom, _users, loopPc, spPc, cycles>>

\* receivePong: nothing arrived within SO_RCVTIMEO, errno == EWOULDBLOCK
RecvTimeout(n) ==
    /\ rpPc[n] = "recv"
    /\ inbox[n] = <<>>
    /\ rx' = [rx EXCEPT ![n] = "timeout"]
    /\ rpPc' = [rpPc EXCEPT ![n] = "done"]
    /\ UNCHANGED <<hashVars, now, ctorVars, mainVars, sockVars, servaddr, cliaddr,
                   receivedMessage, rxFrom, _running, _users, loopPc, spPc, cycles>>

\* receivePong: recvfrom fails with another errno; _running = false and the
\* code falls through to the comparison of the (old) source with _ip
RecvError(n) ==
    /\ rpPc[n] = "recv"
    /\ _running' = [_running EXCEPT ![n] = FALSE]
    /\ rx' = [rx EXCEPT ![n] = "error"]
    /\ rpPc' = [rpPc EXCEPT ![n] = IF cliaddr[n].addr = _ip(n) THEN "done" ELSE "reply"]
    /\ UNCHANGED <<hashVars, now, ctorVars, mainVars, sockVars, servaddr, cliaddr,
                   receivedMessage, rxFrom, _users, loopPc, spPc, cycles>>

\* variant of RecvReply: the receive task records the sender itself
RecvReply_Records(n) ==
    /\ rpPc[n] = "reply"
    /\ sendto(n, RecvIdentify(_token(n)), cliaddr[n])
    /\ _users' = [_users EXCEPT ![n] =
                     MapPut(@, receivedMessage[n],
                            createUser(n, receivedMessage[n], cliaddr[n]))]
    /\ rpPc' = [rpPc EXCEPT ![n] = "done"]
    /\ UNCHANGED <<hashVars, now, ctorVars, mainVars, sockOpen, servaddr, cliaddr,
                   receivedMessage, rxFrom, rx, _running, loopPc, spPc, cycles>>

\* receivePong: sendto(_uSocket, marker + _token, ..., cliaddr)
RecvReply(n) ==
    /\ rpPc[n] = "reply"
    /\ sendto(n, RecvIdentify(_token(n)), cliaddr[n])
    /\ rpPc' = [rpPc EXCEPT ![n] = "done"]
    /\ UNCHANGED <<hashVars, now, ctorVars, mainVars, sockOpen, servaddr, cliaddr,
                   receivedMessage, rxFrom, rx, _running, _users, loopPc, spPc, cycles>>

\* receivedMessage.find(PONG_PREFIX) != std::string::npos
IsIdentify(msg) == Contains(msg, PONG_PREFIX)

\* receivedMessage.substr(PONG_PREFIX.size())
TokenOf(msg) == substr(msg, Len(PONG_PREFIX))

\* token = receivedMessage.substr(PONG_PREFIX.size())
RxToken(n) == TokenOf(receivedMessage[n])

\* variant of SamePort: no datagram is taken for the node's own
SamePort_Never(n) == FALSE

\* ntohs(cliaddr.sin_port) == _uPort: the datagram counts as the node's own
SamePort(n) == ntohs(cliaddr[n].port) = _uPort[n]

\* variant of KnownToken: every identify creates its record anew
KnownToken_Never(n) == FALSE

\* _users.find(token) != _users.end()
KnownToken(n) == RxToken(n) \in DOMAIN _users[n]

\* variant of FuturesReady: the loop goes on without waiting for its tasks
FuturesReady_NoWait(n) == TRUE

\* send_future.get(); recv_future.get() return: both tasks have finished
FuturesReady(n) == spPc[n] = "done" /\ rpPc[n] = "done"

\* both futures are ready; the port comparison, the search for PONG_PREFIX
\* and the lookup of the token
AfterGet(n) ==
    /\ loopPc[n] = "wait" /\ FuturesReady(n)
    /\ spPc' = [spPc EXCEPT ![n] = "idle"]
    /\ rpPc' = [rpPc EXCEPT ![n] = "idle"]
    /\ IF SamePort(n)
       THEN /\ loopPc' = [loopPc EXCEPT ![n] = "top"]
            /\ rx' = [rx EXCEPT ![n] = "none"]
            /\ CycleDone(n)
       ELSE /\ loopPc' = [loopPc EXCEPT ![n] =
                            IF ~IsIdentify(receivedMessage[n]) THEN "reply"
                            ELSE IF KnownToken(n) THEN "hb"
                            ELSE "insert"]
            /\ UNCHANGED <<rx, cycles>>
    /\ UNCHANGED <<hashVars, now, ctorVars, mainVars, sockVars, servaddr, cliaddr,
                   receivedMessage, rxFrom, _running, _users>>

\* _users[token] = createUser(token, cliaddr)
Insert(n) ==
    /\ loopPc[n] = "insert"
    /\ _users' = [_users EXCEPT ![n] =
                     MapPut(@, RxToken(n), createUser(n, RxToken(n), cliaddr[n]))]
    /\ loopPc' = [loopPc EXCEPT ![n] = "hb"]
    /\ UNCHANGED <<hashVars, now, ctorVars, mainVars, sockVars, servaddr, cliaddr,
                   receivedMessage, rxFrom, rx, _running, spPc, rpPc, cycles>>

\* _users[token]->lastHeartbeat = std::chrono::system_clock::now()
SetHeartbeat(n) ==
    /\ loopPc[n] = "hb"
    /\ _users' = [_users EXCEPT ![n][RxToken(n)].lastHeartbeat = now]
    /\ loopPc' = [loopPc EXCEPT ![n] = "reply"]
    /\ UNCHANGED <<hashVars, now, ctorVars, mainVars, sockVars, servaddr, cliaddr,
                   receivedMessage, rxFrom, rx, _running, spPc, rpPc, cycles>>

\* sendto(_uSocket, PONG_PREFIX + _token, ..., cliaddr)
Reply(n) ==
    /\ loopPc[n] = "reply"
    /\ sendto(n, LoopIdentify(_token(n)), cliaddr[n])
    /\ loopPc' = [loopPc EXCEPT ![n] = "top"]
    /\ rx' = [rx EXCEPT ![n] = "none"]
    /\ CycleDone(n)
    /\ UNCHANGED <<hashVars, now, ctorVars, mainVars, sockOpen, servaddr, cliaddr,
                   receivedMessage, rxFrom, _running, _users, spPc, rpPc>>

\* close(_uSocket); udpHandler returns
Close(n) ==
    /\ loopPc[n] = "close"
    /\ sockOpen' = [sockOpen EXCEPT ![n] = FALSE]
    /\ inbox' = [inbox EXCEPT ![n] = <<>>]
    /\ loopPc' = [loopPc EXCEPT ![n] = "done"]
    /\ UNCHANGED <<hashVars, now, ctorVars, mainVars, servaddr, cliaddr,
                   receivedMessage, rxFrom, rx, _running, _users, spPc, rpPc, cycles>>

Worker(n) ==
    \/ LoopTop(n) \/ Sweep(n) \/ AfterGet(n) \/ Insert(n)
    \/ SetHeartbeat(n) \/ Reply(n) \/ Close(n)

Tasks(n) ==
    \/ SendPingSet(n) \/ SendPingSend(n)
    \/ RecvPongSet(n) \/ RecvData(n) \/ RecvTimeout(n) \/ RecvError(n)
    \/ RecvReply(n)

(***************************************************************************)
(* The main thread: TLScope::shell, then the joins of TLScope::run and     *)
(* NetManager::~NetManager                                                 *)
(***************************************************************************)
\* while (netManager->_running)
ShellCond(n) ==
    /\ mainPc[n] = "shell"
    /\ mainPc' = [mainPc EXCEPT ![n] = IF _running[n] THEN "prompt" ELSE "join"]
    /\ UNCHANGED <<hashVars, now, ctorVars, joinable, shellIt, sockVars, loopVars>>

\* std::getline returns a command; "u" tests _users.empty() and takes
\* _users.begin(), every other command leaves the table alone
ShellCommand(n) ==
    /\ mainPc[n] = "prompt"
    /\ \E cmd \in {"u", "h"} :
          IF cmd = "u" /\ DOMAIN _users[n] # {}
          THEN /\ shellIt' = [shellIt EXCEPT ![n] = MapBegin(_users[n])]
               /\ mainPc' = [mainPc EXCEPT ![n] = "u_iter"]
          ELSE /\ shellIt' = [shellIt EXCEPT ![n] = <<>>]
               /\ mainPc' = [mainPc EXCEPT ![n] = "shell"]
    /\ UNCHANGED <<hashVars, now, ctorVars, joinable, sockVars, loopVars>>

\* one round of for (auto& [token, user] : netManager->_users): the record
\* under the iterator is read and the iterator advanced.  An iterator whose
\* record was erased meanwhile is dangling: it may continue anywhere.
ShellIterate(n) ==
    /\ mainPc[n] = "u_iter"
    /\ \E nxt \in IF shellIt[n] \in DOMAIN _users[n]
                   THEN {MapNext(_users[n], shellIt[n])}
                   ELSE DOMAIN _users[n] \cup {<<>>} :
          /\ shellIt' = [shellIt EXCEPT ![n] = nxt]
          /\ mainPc' = [mainPc EXCEPT ![n] = IF nxt = <<>> THEN "shell" ELSE "u_iter"]
    /\ UNCHANGED <<hashVars, now, ctorVars, joinable, sockVars, loopVars>>

\* TLScope::run: netManager->_udpClient.join() returns when udpHandler has
\* returned
RunJoin(n) ==
    /\ mainPc[n] = "join"
    /\ loopPc[n] = "done"
    /\ joinable' = [joinable EXCEPT ![n] = FALSE]
    /\ mainPc' = [mainPc EXCEPT ![n] = "dtor"]
    /\ UNCHANGED <<hashVars, now, ctorVars, shellIt, sockVars, loopVars>>

\* ~NetManager: _running = false
DtorStop(n) ==
    /\ mainPc[n] = "dtor"
    /\ _running' = [_running EXCEPT ![n] = FALSE]
    /\ mainPc' = [mainPc EXCEPT ![n] = "dtor_join"]
    /\ UNCHANGED <<hashVars, now, ctorVars, joinable, shellIt, sockVars, servaddr,
                   cliaddr, receivedMessage, rxFrom, rx, _users, loopPc, spPc, rpPc,
                   cycles>>

\* ~NetManager: _udpClient.join(); joining a thread that is not joinable
\* throws std::system_error out of the destructor
DtorJoin(n) ==
    /\ mainPc[n] = "dtor_join"
    /\ IF joinable[n]
       THEN /\ loopPc[n] = "done"
            /\ joinable' = [joinable EXCEPT ![n] = FALSE]
            /\ mainPc' = [mainPc EXCEPT ![n] = "destroyed"]
       ELSE /\ mainPc' = [mainPc EXCEPT ![n] = "terminated"]
            /\ UNCHANGED joinable
    /\ UNCHANGED <<hashVars, now, ctorVars, shellIt, sockVars, loopVars>>

MainThread(n) ==
    \/ ShellCond(n) \/ ShellCommand(n) \/ ShellIterate(n)
    \/ RunJoin(n) \/ DtorStop(n) \/ DtorJoin(n)


InitHash ==
    /\ hPc = "salt" /\ hData \in Secrets /\ hCand \in Secrets
    /\ hSalt = <<>> /\ hHashed = <<>> /\ hOk = FALSE
    /\ sN = 0 /\ sSalt = <<>> /\ hToken = <<>>
    /\ LoginIdle /\ WireIdle /\ RunIdle
    /\ now = StartTime
    /\ NodesInit({}, "ctor", NoOffset, NoneQueued)

NextHash ==
    \/ SaltCall /\ UNCHANGED <<loginVars, wireVars, nodeVars>>
    \/ SaltDone /\ UNCHANGED <<loginVars, wireVars, nodeVars>>
    \/ HashCall /\ UNCHANGED <<loginVars, wireVars, nodeVars>>
    \/ CheckHashCall /\ UNCHANGED <<loginVars, wireVars, nodeVars>>
    \/ MakeToken /\ UNCHANGED <<loginVars, wireVars, nodeVars>>

SpecHash == InitHash /\ [][NextHash]_vars

InitLogin ==
    /\ TestIdle /\ WireIdle /\ RunIdle
    /\ lPc = "prompt" /\ lEmail = "" /\ lAttempt = <<>> /\ lSleep = 0
    /\ lReg \in Registries
    /\ lMsg = <<>> /\ lWork = ZeroWork
    /\ lObs = [unknown |-> NoObs, wrong |-> NoObs] /\ lUser = ""
    /\ now = StartTime
    /\ NodesInit({}, "ctor", NoOffset, NoneQueued)

NextLogin ==
    \/ LoginPrompt /\ UNCHANGED <<testVars, wireVars, nodeVars>>
    \/ LoginLookup /\ UNCHANGED <<testVars, wireVars, nodeVars>>
    \/ LoginUnknown /\ UNCHANGED <<testVars, wireVars, nodeVars>>
    \/ LoginKnown /\ UNCHANGED <<testVars, wireVars, nodeVars>>

SpecLogin == InitLogin /\ [][NextLogin]_vars

(***************************************************************************)
(* SpecRun: TLScope::run on an object built by TLScope::TLScope()          *)
(***************************************************************************)
MenuInputs == {"Q", "L", "R", "G", "X"}
\* names std::getline may return; it returns an empty one only from a
\* failed stream, on which validEmail does not return
RegNames == {"q", "ann"}
RegEmails == {"alice@x", "carol@x", "q"}
RegPasswords == {DummyPass, QuitWord}

\* the USER of std::make_shared<USER>() that registerUser did not finish
PartialUser == "partial"

\* TLScope::start: one round of its while (true): Q returns, L calls
\* loginUser, R calls registerUser, G and every other input ask again
StartMenu ==
    /\ runPc = "menu"
    /\ \E input \in MenuInputs :
          /\ runPc' = CASE input = "Q" -> "started"
                         [] input = "L" -> "login"
                         [] input = "R" -> "register"
                         [] OTHER -> "menu"
          /\ lPc' = IF input = "L" THEN "prompt" ELSE lPc
    /\ UNCHANGED <<lEmail, lAttempt, lSleep, lReg, lMsg, lWork, lObs, lUser,
                   regResult, sessions, restVars>>

\* if (!loginUser()) { return; } break;
LoginReturn ==
    /\ runPc = "login" /\ lPc \in {"quit", "in"}
    /\ runPc' = "started"
    /\ UNCHANGED <<loginVars, regResult, sessions, restVars>>

\* how TLScope::registerUser ends for a name, the email validEmail
\* returned with ("q": cancelled), the password validPassword returned
\* with, the registry and the outcome of saveUserData
registerOutcome(name, email, password, reg, saved) ==
    IF name = "q" \/ email = "q" \/ password = QuitWord THEN "cancelled"
    ELSE IF name = "" THEN "empty"
    ELSE IF email \in DOMAIN reg THEN "duplicate"
    ELSE IF ~saved THEN "save"
    ELSE "ok"

\* TLScope::registerUser: user = std::make_shared<USER>() comes first, so
\* user is set however the call ends
RegisterUser ==
    /\ runPc = "register"
    /\ \E name \in RegNames : \E email \in RegEmails :
       \E password \in RegPasswords : \E saved \in BOOLEAN :
          LET res == registerOutcome(name, email, password, lReg, saved) IN
              /\ regResult' = res
              /\ lUser' = IF res = "ok" THEN email ELSE PartialUser
    /\ runPc' = "registered"
    /\ UNCHANGED <<lPc, lEmail, lAttempt, lSleep, lReg, lMsg, lWork, lObs,
                   sessions, restVars>>

\* variant of AfterFailedRegister: start() returns without user.reset()
AfterFailedRegister_Keep(u) == u

\* user.reset()
AfterFailedRegister(u) == ""

\* if (!registerUser()) { user.reset(); return; } break;
RegisterReturn ==
    /\ runPc = "registered"
    /\ lUser' = IF regResult = "ok" THEN lUser ELSE AfterFailedRegister(lUser)
    /\ runPc' = "started"
    /\ UNCHANGED <<lPc, lEmail, lAttempt, lSleep, lReg, lMsg, lWork, lObs,
                   regResult, sessions, restVars>>

\* TLScope::run after start(): if (user != nullptr) the NetManager is made
RunAfterStart ==
    /\ runPc = "started"
    /\ IF lUser # ""
       THEN sessions' = sessions + 1 /\ runPc' = "session"
       ELSE sessions' = sessions /\ runPc' = "closing"
    /\ UNCHANGED <<loginVars, regResult, restVars>>

\* shell() returns, the worker is joined and netManager.reset()
RunSessionEnd ==
    /\ runPc = "session"
    /\ runPc' = "closing"
    /\ UNCHANGED <<loginVars, regResult, sessions, restVars>>

InitRun ==
    /\ TestIdle /\ WireIdle
    /\ lPc = "off" /\ lEmail = "" /\ lAttempt = <<>> /\ lSleep = 0
    /\ lReg \in Registries
    /\ lMsg = <<>> /\ lWork = ZeroWork
    /\ lObs = [unknown |-> NoObs, wrong |-> NoObs] /\ lUser = ""
    /\ runPc = "menu" /\ regResult = "none" /\ sessions = 0
    /\ now = StartTime
    /\ NodesInit({}, "ctor", NoOffset, NoneQueued)

NextRun ==
    \/ StartMenu
    \/ LoginPrompt /\ UNCHANGED <<testVars, wireVars, nodeVars>>
    \/ LoginLookup /\ UNCHANGED <<testVars, wireVars, nodeVars>>
    \/ LoginUnknown /\ UNCHANGED <<testVars, wireVars, nodeVars>>
    \/ LoginKnown /\ UNCHANGED <<testVars, wireVars, nodeVars>>
    \/ LoginReturn
    \/ RegisterUser
    \/ RegisterReturn
    \/ RunAfterStart
    \/ RunSessionEnd

SpecRun == InitRun /\ [][NextRun]_vars

(***************************************************************************)
(* SpecWire: one Identify-carrying or other datagram, as a node builds it  *)
(* and as udpHandler of the receiving node reads it                        *)
(***************************************************************************)
WireTokens ==
    {TokenString(HexEncode(<<a>>), HexEncode(<<b>>)) :
        a \in {161, 178, 195}, b \in {11, 12, 13, 14}}

\* datagrams that do not begin with the marker of an Identify
OtherPayloads(token) ==
    {PROBE_MARK, token, PROBE_MARK \o LoopIdentify(token)}

\* udpHandler answers: response = PONG_PREFIX + _token
WireLoopSend ==
    /\ wPc = "start"
    /\ wMsg' = LoopIdentify(wTok)
    /\ wFrom' = "loop" /\ wPc' = "sent"
    /\ UNCHANGED <<wTok, wIsId, wExtract>>

\* receivePong answers: response = marker + _token
WireRecvSend ==
    /\ wPc = "start"
    /\ wMsg' = RecvIdentify(wTok)
    /\ wFrom' = "recv" /\ wPc' = "sent"
    /\ UNCHANGED <<wTok, wIsId, wExtract>>

\* some other datagram is sent
WireOtherSend ==
    /\ wPc = "start"
    /\ wMsg' \in OtherPayloads(wTok)
    /\ wFrom' = "other" /\ wPc' = "sent"
    /\ UNCHANGED <<wTok, wIsId, wExtract>>

\* the receiving node: receivedMessage.assign(buffer), the search for
\* PONG_PREFIX and token = receivedMessage.substr(PONG_PREFIX.size())
WireReceive ==
    /\ wPc = "sent"
    /\ wIsId' = IsIdentify(CString(wMsg))
    /\ wExtract' = IF IsIdentify(CString(wMsg)) THEN TokenOf(CString(wMsg)) ELSE <<>>
    /\ wPc' = "received"
    /\ UNCHANGED <<wFrom, wTok, wMsg>>

InitWire ==
    /\ TestIdle /\ LoginIdle /\ RunIdle
    /\ wPc = "start" /\ wFrom = "none" /\ wTok \in WireTokens /\ wMsg = <<>>
    /\ wIsId = FALSE /\ wExtract = <<>>
    /\ now = StartTime
    /\ NodesInit({}, "ctor", NoOffset, NoneQueued)

NextWire ==
    \/ WireLoopSend /\ UNCHANGED <<testVars, loginVars, nodeVars>>
    \/ WireRecvSend /\ UNCHANGED <<testVars, loginVars, nodeVars>>
    \/ WireOtherSend /\ UNCHANGED <<testVars, loginVars, nodeVars>>
    \/ WireReceive /\ UNCHANGED <<testVars, loginVars, nodeVars>>

SpecWire == InitWire /\ [][NextWire]_vars

InitCtor ==
    /\ HashIdle /\ now = StartTime
    /\ NodesInit({"A"}, "ctor", NoOffset, NoneQueued)

NextCtor ==
    \E n \in Nodes :
        \/ TlsContext(n) \/ TlsLoadVerify(n) \/ SocketCreate(n) \/ SocketSetup(n)
        \/ BindFail(n) \/ BindOk(n) \/ StartWorker(n)

SpecCtor == InitCtor /\ [][NextCtor]_vars

(***************************************************************************)
(* SpecWrap: the constructor in its bind loop on a host where bind has     *)
(* failed for every port from PORT up to 2^16 - WrapWindow - 1             *)
(***************************************************************************)
WrapStart == [n \in Nodes |-> PortModulus - WrapWindow - PORT]

InitWrap ==
    /\ HashIdle /\ now = StartTime
    /\ NodesInit({"A"}, "bind", WrapStart, NoneQueued)

NextWrap == \E n \in Nodes : BindFail(n) \/ BindOk(n) \/ StartWorker(n)

SpecWrap == InitWrap /\ [][NextWrap]_vars

(***************************************************************************)
(* Spec: one constructed node and its environment                          *)
(***************************************************************************)
Init ==
    /\ HashIdle /\ now = StartTime
    /\ \E off \in [Nodes -> 0..MaxPortOffset] : NodesInit({"A"}, "shell", off, NoneQueued)

Next ==
    \/ \E n \in Nodes : Worker(n) \/ Tasks(n) \/ MainThread(n) \/ ForeignSend(n)
    \/ Tick

Spec == Init /\ [][Next]_vars

\* Threads and tasks that can run are scheduled; nothing forces a datagram
\* to arrive, the clock to advance or the user to type.
Fairness ==
    \A n \in Nodes :
        /\ WF_vars(Worker(n))
        /\ WF_vars(SendPingSet(n) \/ SendPingSend(n))
        /\ WF_vars(RecvPongSet(n) \/ RecvData(n) \/ RecvTimeout(n) \/ RecvReply(n))
        /\ WF_vars(ShellCond(n) \/ RunJoin(n) \/ DtorStop(n) \/ DtorJoin(n))

FairSpec == Spec /\ Fairness

(***************************************************************************)
(* SpecNet: two constructed nodes on different hosts.  A datagram of a     *)
(* foreign peer may already be queued at a socket when its worker starts.  *)
(* The workers take turns: a node runs one cycle of udpHandler while the   *)
(* other stands at while (_running), and neither gets more than one cycle  *)
(* ahead.  Every behaviour of SpecNet is an interleaving the two processes *)
(* can produce.                                                            *)
(***************************************************************************)
InitNet ==
    /\ HashIdle /\ now = StartTime
    /\ \E off \in [Nodes -> 0..NetPortOffset] :
       \E queued \in [Nodes -> {<<>>} \cup {<<d>> : d \in ForeignDatagrams}] :
          NodesInit(Nodes, "shell", off, queued)

TurnOf(n) ==
    /\ \A m \in Nodes \ {n} : loopPc[m] = "top"
    /\ loopPc[n] = "top" => \A m \in Nodes : cycles[n] <= cycles[m]

NextNet ==
    \E n \in Nodes :
        \/ TurnOf(n) /\ LoopTop(n)
        \/ TurnOf(n) /\ Sweep(n)
        \/ TurnOf(n) /\ AfterGet(n)
        \/ TurnOf(n) /\ Insert(n)
        \/ TurnOf(n) /\ SetHeartbeat(n)
        \/ TurnOf(n) /\ Reply(n)
        \/ TurnOf(n) /\ SendPingSet(n)
        \/ TurnOf(n) /\ SendPingSend(n)
        \/ TurnOf(n) /\ RecvPongSet(n)
        \/ TurnOf(n) /\ RecvData(n)
        \/ TurnOf(n) /\ RecvTimeout(n)
        \/ TurnOf(n) /\ RecvReply(n)

SpecNet == InitNet /\ [][NextNet]_vars

(***************************************************************************)
(* Claims                                                                  *)
(***************************************************************************)
Peers(n) == Nodes \ {n}

\* C1: two running nodes of the same multicast group have, after at most
\* DiscoveryCycles cycles each, exactly one record for the other node in
\* _users, whose endpoint is the other node's address and port.
C1_DiscoveryConverges ==
    (\A n \in Nodes : cycles[n] >= DiscoveryCycles) =>
        \A n \in Nodes : \A m \in Peers(n) :
            /\ _token(m) \in DOMAIN _users[n]
            /\ _users[n][_token(m)].IPP = <<HostAddr[m], boundPort[m]>>

\* C2: _users of a node never holds a record that stands for the node
\* itself: none under its own token, none created from a datagram the node
\* sent, none with the node's own endpoint.
C2_NoSelfRecord ==
    \A n \in Nodes :
        /\ _token(n) \notin DOMAIN _users[n]
        /\ \A t \in DOMAIN _users[n] :
              /\ _users[n][t].by # n
              /\ _users[n][t].IPP \notin {<<HostAddr[n], boundPort[n]>>,
                                          <<LOOPBACK, boundPort[n]>>}

\* C2 witness: the worker has gone through a cycle that received the node's
\* own probe while the table holds a record
C2_Witness ==
    /\ loopPc["A"] = "top" /\ rxFrom["A"] = "A"
    /\ receivedMessage["A"] = PROBE_MARK
    /\ DOMAIN _users["A"] # {}

\* C3: a sweep at time now keeps exactly the records with
\* now - lastHeartbeat <= PresenceTimeout, unaltered, and adds none.
C3_SweepBoundary ==
    [][\A n \in Nodes :
          (loopPc[n] = "sweep" /\ loopPc'[n] = "wait") =>
              /\ DOMAIN _users'[n] =
                    {t \in DOMAIN _users[n] :
                        now - _users[n][t].lastHeartbeat <= PresenceTimeout}
              /\ \A t \in DOMAIN _users'[n] : _users'[n][t] = _users[n][t]]_vars

\* C3 witness: a sweep has just run and kept a record whose heartbeat is
\* exactly PresenceTimeout old
C3_Witness ==
    /\ loopPc["A"] = "wait" /\ spPc["A"] = "set" /\ rpPc["A"] = "set"
    /\ \E t \in DOMAIN _users["A"] :
          now - _users["A"][t].lastHeartbeat = PresenceTimeout

\* C4: the ports handed to bind are PORT, PORT+1, ... in order, each once;
\* when bind succeeds after k failures the socket is bound to PORT+k and
\* _uPort equals PORT+k.
C4_FirstFreePort ==
    \A n \in Nodes :
        /\ mainPc[n] = "bind" =>
              /\ bindTried[n] = [i \in 1..Len(bindTried[n]) |-> PORT + i - 1]
              /\ _uPort[n] = PORT + Len(bindTried[n])
        /\ mainPc[n] \in {"bound", "shell"} =>
              /\ bindTried[n] = [i \in 1..Len(bindTried[n]) |-> PORT + i - 1]
              /\ boundPort[n] = PORT + Len(bindTried[n]) - 1
              /\ _uPort[n] = boundPort[n]

\* C4 witness: the constructor returned after three failed attempts
C4_Witness ==
    /\ mainPc["A"] = "shell" /\ Len(bindTried["A"]) = 4
    /\ boundPort["A"] = PORT + 3

\* C5: when RetryBudget bind attempts have failed, the constructor has
\* left the bind loop with a BindError and has not started the worker.
C5_BoundedRetry ==
    \A n \in Nodes :
        _uPort[n] - PORT >= RetryBudget =>
            mainPc[n] = "bind_error" /\ loopPc[n] = "none"

\* C6: once _running is false the worker finishes at most the cycle it is in,
\* leaves the loop and closes the socket; a join on it returns, and by then
\* the socket is closed.
C6_Shutdown ==
    /\ \A n \in Nodes :
          (loopPc[n] \notin {"none", "done"} /\ ~_running[n]) ~>
              (loopPc[n] = "done" /\ ~sockOpen[n])
    /\ \A n \in Nodes : (mainPc[n] = "join") ~> (mainPc[n] = "dtor")
    /\ [](\A n \in Nodes :
            mainPc[n] \in {"dtor", "dtor_join", "destroyed", "terminated"} =>
                loopPc[n] = "done" /\ ~sockOpen[n])
    /\ [][\A n \in Nodes :
            (loopPc[n] = "top" /\ ~_running[n]) =>
                loopPc'[n] \in {"top", "close"}]_vars

\* C6 witness: _running was cleared, the worker closed the socket and the
\* join in TLScope::run returned
C6_Witness ==
    /\ mainPc["A"] = "dtor" /\ ~_running["A"]
    /\ loopPc["A"] = "done" /\ ~sockOpen["A"]

\* C7: every cycle of the worker ends: a receive with nothing to read
\* returns, both tasks complete, and the loop is back at the test of
\* _running.
C7_CycleTerminates ==
    /\ \A n \in Nodes :
          (loopPc[n] \in {"sweep", "wait", "insert", "hb", "reply"}) ~>
              (loopPc[n] = "top")
    /\ \A n \in Nodes :
          (loopPc[n] = "wait") ~> (spPc[n] = "done" /\ rpPc[n] = "done")

\* C7 witness: a cycle in which nothing was ever received is over and the
\* worker is back at the test of _running
C7_Witness ==
    /\ loopPc["A"] = "top" /\ _running["A"]
    /\ rxFrom["A"] = "none" /\ receivedMessage["A"] = <<>>
    /\ servaddr["A"].addr = MCAST

\* a secret without its trailing NUL bytes
RECURSIVE TrimNul(_)
TrimNul(str) ==
    IF str # <<>> /\ str[Len(str)] = 0
    THEN TrimNul(SubSeq(str, 1, Len(str) - 1)) ELSE str

C9_NoPartialRecord ==
    \A n \in Nodes :
        mainPc[n] \in {"prompt", "u_iter"} =>
            \A t \in DOMAIN _users[n] : _users[n][t].lastHeartbeat # Epoch

\* C10: while the shell iterates over _users, no record is inserted into or
\* erased from it.
C10_NoOverlap ==
    [][\A n \in Nodes :
          mainPc[n] = "u_iter" => DOMAIN _users'[n] = DOMAIN _users[n]]_vars

\* C11: a login that fails for an unknown email and a login that fails for
\* a wrong password look the same: same message, same way back to the
\* prompt, same credential-derivation work.
C11_FailureUniform ==
    (lObs.unknown.next # "none" /\ lObs.wrong.next # "none") =>
        lObs.unknown = lObs.wrong

HexChars == {HexDigits[i] : i \in 1..Len(HexDigits)}

\* C12: genSalt(n) returns 2*n hexadecimal characters, and the token the
\* constructor builds is salt ':' hash with a salt of 2*SaltBytes hex
\* characters and the hex encoding, 2*DigestSize long, of the derived key.
C12_SaltTokenFormat ==
    /\ hPc = "salted" =>
          /\ Len(sSalt) = 2 * sN
          /\ \A i \in 1..Len(sSalt) : sSalt[i] \in HexChars
    /\ hPc = "token" =>
          /\ Len(hSalt) = 2 * SaltBytes
          /\ \A i \in 1..Len(hSalt) : hSalt[i] \in HexChars
          /\ hHashed = HexKey(DeriveKey(hData, hSalt))
          /\ Len(hHashed) = 2 * DigestSize
          /\ Len(hToken) = 2 * SaltBytes + 1 + 2 * DigestSize
          /\ SubSeq(hToken, 1, 2 * SaltBytes) = hSalt
          /\ hToken[2 * SaltBytes + 1] = ":"
          /\ SubSeq(hToken, 2 * SaltBytes + 2, Len(hToken)) = hHashed

\* C12 witness: the constructor built its token from a salt that begins
\* with the digits of byte 171
C12_Witness ==
    /\ hPc = "token" /\ hData # <<>>
    /\ Len(hToken) > Len(hSalt) /\ hToken[1] = "A" /\ hToken[2] = "B"

\* C19: an Identify sent from either place is recognised by the receiving
\* loop, which extracts the sender's token; a datagram that does not begin
\* with the Identify marker is not taken for an Identify.
C19_WireRoundTrip ==
    wPc = "received" =>
        /\ wFrom \in {"loop", "recv"} => (wIsId /\ wExtract = wTok)
        /\ wFrom = "other" => ~wIsId

OwnAddrs(n) == {HostAddr[n], LOOPBACK}

\* C13: the loop discards a received datagram as its own exactly when the
\* datagram's source address is the node's own address.
C13_FilterByAddress ==
    [][\A n \in Nodes :
          (loopPc[n] = "wait" /\ loopPc'[n] # "wait" /\ rx[n] = "data") =>
              (loopPc'[n] = "top" <=> cliaddr[n].addr \in OwnAddrs(n))]_vars

\* receivePong has sent its reply in the cycle under way
RecvReplied(n) == rx[n] \in {"data", "error"} /\ cliaddr[n].addr # _ip(n)

\* C14: a node sends an Identify only to answer a Probe it received in the
\* same cycle from another node, and one Identify per Probe: none for a
\* received Identify, for its own datagram or after a receive timeout.
C14_ReplyOnlyToProbe ==
    [][\A n \in Nodes :
          /\ (rpPc[n] = "reply" /\ rpPc'[n] = "done") =>
                /\ rx[n] = "data" /\ receivedMessage[n] = PROBE_MARK
                /\ rxFrom[n] # n
          /\ (loopPc[n] = "reply" /\ loopPc'[n] = "top") =>
                /\ rx[n] = "data" /\ receivedMessage[n] = PROBE_MARK
                /\ rxFrom[n] # n
                /\ ~RecvReplied(n)]_vars

\* C15: when the loop has processed an Identify received in this cycle,
\* _users holds a record under its token whose endpoint is the source of
\* that Identify and whose lastHeartbeat is the time of processing.
C15_UpsertOnIdentify ==
    [][\A n \in Nodes :
          (loopPc[n] = "hb" /\ loopPc'[n] = "reply" /\ rx[n] = "data") =>
              /\ RxToken(n) \in DOMAIN _users'[n]
              /\ _users'[n][RxToken(n)].IPP =
                    <<cliaddr[n].addr, ntohs(cliaddr[n].port)>>
              /\ _users'[n][RxToken(n)].lastHeartbeat = now]_vars

\* C16: in a cycle whose receive timed out the loop changes no record and
\* sends no Identify.
C16_TimeoutNoEffect ==
    [][\A n \in Nodes :
          rx[n] = "timeout" =>
              /\ _users'[n] = _users[n]
              /\ ~(loopPc[n] = "reply" /\ loopPc'[n] = "top")]_vars

\* C17: the lastHeartbeat of a record advances only when an Identify with
\* the record's token was received in the cycle, so that a silent peer's
\* record ages until a sweep removes it.
C17_HeartbeatNeedsIdentify ==
    [][\A n \in Nodes :
          \A t \in DOMAIN _users[n] \cap DOMAIN _users'[n] :
              _users'[n][t].lastHeartbeat # _users[n][t].lastHeartbeat =>
                  /\ rx[n] = "data"
                  /\ IsIdentify(receivedMessage[n]) /\ RxToken(n) = t]_vars

\* C18: the probe send of the sendPing task never happens while the
\* receivePong task is inside recvfrom on the same socket.
C18_SocketSerialized ==
    [][\A n \in Nodes :
          (spPc[n] = "send" /\ spPc'[n] = "done") => rpPc[n] # "recv"]_vars

\* C20: within the worker _running is cleared exactly when recvfrom fails
\* with an errno other than the timeout; a timeout, a failed TTL setsockopt
\* and a failed probe send leave it as it is, and the loop is left only
\* with _running false.
C20_FatalOnlyOnRecvError ==
    [][\A n \in Nodes :
          /\ (rx'[n] = "error" /\ rx[n] # "error") => ~_running'[n]
          /\ (_running[n] /\ ~_running'[n]) =>
                \/ rx'[n] = "error" /\ rx[n] # "error"
                \/ mainPc[n] = "dtor"
          /\ (rx'[n] = "timeout" /\ rx[n] # "timeout") =>
                _running'[n] = _running[n]
          /\ spPc'[n] # spPc[n] => _running'[n] = _running[n]
          /\ (loopPc'[n] = "close" /\ loopPc[n] # "close") => ~_running[n]]_vars

\* C20 witness: recvfrom failed and the worker cleared _running while the
\* main thread was still in the shell
C20_Witness ==
    /\ rx["A"] = "error" /\ ~_running["A"]
    /\ mainPc["A"] \in {"shell", "prompt", "u_iter"}
    /\ servaddr["A"].addr \in {MCAST, INADDR_ANY}

\* C21: in every cycle the sweep is over before the probe task and the
\* receive task of that cycle take their first step, and a reply that a
\* received datagram triggered (the task's own or the loop's) is sent before
\* the next cycle's receive begins: a pending reply is only ever left by
\* sending it, and a receive only begins while the loop waits in its cycle.
C21_CycleOrder ==
    [][\A n \in Nodes :
          /\ (loopPc[n] = "sweep" /\ loopPc'[n] # "sweep")
                => (spPc[n] = "idle" /\ rpPc[n] = "idle")
          /\ (spPc[n] = "set" /\ spPc'[n] # "set") => loopPc[n] = "wait"
          /\ (rpPc[n] = "set" /\ rpPc'[n] # "set")
                => (loopPc[n] = "wait" /\ rpPc'[n] = "recv")
          /\ (rpPc[n] = "reply" /\ rpPc'[n] # "reply")
                => (rpPc'[n] = "done" /\ loopPc'[n] = "wait")
          /\ (loopPc[n] = "reply" /\ loopPc'[n] # "reply")
                => (loopPc'[n] = "top" /\ rpPc'[n] = "idle")
          /\ (rpPc'[n] = "recv" /\ rpPc[n] # "recv")
                => (rpPc[n] = "set" /\ loopPc[n] = "wait")]_vars

\* a probe of a foreign peer was received and answered in an earlier cycle
\* and the receive of a later cycle is under way
C21_Witness ==
    /\ loopPc["A"] = "wait" /\ rpPc["A"] = "recv" /\ rx["A"] = "none"
    /\ rxFrom["A"] = "foreign" /\ receivedMessage["A"] = PROBE_MARK
    /\ spPc["A"] = "done"

C23_SoleWriter ==
    [][\A n \in Nodes :
          _users'[n] # _users[n]
            => /\ loopPc[n] \in {"sweep", "insert", "hb"}
               /\ loopPc'[n] # loopPc[n]
               /\ mainPc'[n] = mainPc[n] /\ shellIt'[n] = shellIt[n]
               /\ (loopPc[n] # "sweep"
                     => (spPc'[n] = spPc[n] /\ rpPc'[n] = rpPc[n]))]_vars

\* the table holds a stamped record while the shell walks it and both tasks
\* of the current cycle are running
C23_Witness ==
    /\ \E t \in DOMAIN _users["A"] : _users["A"][t].lastHeartbeat > Epoch
    /\ mainPc["A"] = "u_iter" /\ shellIt["A"] \in DOMAIN _users["A"]
    /\ loopPc["A"] = "wait" /\ spPc["A"] = "send" /\ rpPc["A"] = "reply"

\* C24: in the constructor a failure of SSL_CTX_new or of the loading of
\* the trust anchor ends the process at once; the UDP socket is created,
\* bound and its worker started only with a TLS context whose trust anchor
\* is loaded, so after such a failure there is no socket, no bound port and
\* no worker thread, and the node takes no further step.
C24_TlsFailureFatal ==
    /\ [](\A n \in Nodes :
            (sockOpen[n] \/ boundPort[n] # 0 \/ bindTried[n] # <<>>
               \/ loopPc[n] # "none" \/ joinable[n]) => _ctxT[n] = "loaded")
    /\ [](\A n \in Nodes :
            mainPc[n] = "tls_exit" =>
                /\ _ctxT[n] # "loaded" /\ ~sockOpen[n] /\ boundPort[n] = 0
                /\ bindTried[n] = <<>> /\ loopPc[n] = "none" /\ ~joinable[n])
    /\ [][\A n \in Nodes :
            /\ (mainPc[n] = "ctor" /\ mainPc'[n] # "ctor" /\ _ctxT'[n] # "new")
                  => mainPc'[n] = "tls_exit"
            /\ (mainPc[n] = "tls_load" /\ mainPc'[n] # "tls_load"
                   /\ _ctxT'[n] # "loaded") => mainPc'[n] = "tls_exit"
            /\ mainPc[n] = "tls_exit" =>
                  /\ mainPc'[n] = "tls_exit" /\ sockOpen'[n] = sockOpen[n]
                  /\ loopPc'[n] = loopPc[n] /\ boundPort'[n] = boundPort[n]]_vars

\* the context was created, the trust anchor could not be loaded, and the
\* process has exited
C24_Witness ==
    /\ mainPc["A"] = "tls_exit" /\ _ctxT["A"] = "new"
    /\ ~sockOpen["A"] /\ loopPc["A"] = "none"

\* C25: _udpClient is joined at most once: every call of join(), the one in
\* TLScope::run and the one in ~NetManager, finds the thread joinable, that
\* is, not joined before.
C25_JoinOnce ==
    [][\A n \in Nodes :
          (mainPc[n] \in {"join", "dtor_join"} /\ mainPc'[n] # mainPc[n])
            => joinable[n]]_vars

\* C26: every probe the sendPing task sends is addressed to 224.0.0.1 on
\* the port the socket is bound to, whatever the receivePong task does to
\* servaddr in between.
C26_ProbeAddress ==
    [][\A n \in Nodes :
          (spPc[n] = "send" /\ spPc'[n] = "done")
            => servaddr[n] = [addr |-> MCAST, port |-> htons(boundPort[n])]]_vars

\* C27: _uPort never passes 65535, every port handed to bind is the value
\* the counter had at that attempt, and once the socket is bound the port
\* it is bound to is _uPort.
C27_CounterIsPort ==
    \A n \in Nodes :
        /\ _uPort[n] < PortModulus
        /\ mainPc[n] \in {"bound", "shell"} =>
              /\ bindTried[n][Len(bindTried[n])] = _uPort[n]
              /\ boundPort[n] = _uPort[n]

\* a call of loginUser or of registerUser has returned true
Authenticated == lPc = "in" \/ regResult = "ok"

====
